---- MODULE Spec2Model ----
(***************************************************************************)
(* Model of Solar_As_Produced_Calculator.py, a Streamlit script.           *)
(*                                                                         *)
(* Streamlit re-executes the whole script after every operator             *)
(* interaction.  The state kept between executions is the widget state     *)
(* (uploaded file, guarantee editor, three number inputs); everything      *)
(* else is recomputed by the execution.  Each action below is one          *)
(* interaction followed by the complete script execution it triggers.      *)
(*                                                                         *)
(* Units.  The script computes in binary floating point; the model         *)
(* computes the same expressions exactly, in fixed point:                  *)
(*   kWh                      whole kWh                                    *)
(*   Solar Guarantee (%)      whole percent                                *)
(*   wesm, rates, fees        tenths of a PHP per kWh                      *)
(*   consumption columns      hundredths of a kWh   (kWh * pct / 100)      *)
(*   charge columns           thousandths of a PHP                         *)
(* A float NaN is the empty tuple <<>> and a number n is <<n>>.            *)
(***************************************************************************)
EXTENDS Integers, Sequences, FiniteSets, TLC

VARIABLES
    uploaded_file,        \* st.file_uploader state: [present, rows]
    editor,               \* st.data_editor state: the transposed 1 x 24 frame
    solar_rate,           \* st.number_input 'Solar Rate'
    line_rental,          \* st.number_input 'Line Rental'
    admin_fee,            \* st.number_input 'Admin Fee'
    pressed,              \* the last execution was started by a click on the button
    outcome,              \* how the last execution ended
    warning,              \* st.warning was shown in the last execution
    edited_df,            \* edited_df at the end of the last execution
    df,                   \* df at the end of the last execution
    detailed_charges_df,  \* the 'Detailed Charges' table shown, or <<>>
    pivot_df,             \* the 'Summary Charges' table shown, or <<>>
    result_xlsx           \* the sheets written to result.xlsx, or <<>>

vars == <<uploaded_file, editor, solar_rate, line_rental, admin_fee, pressed,
          outcome, warning, edited_df, df, detailed_charges_df, pivot_df,
          result_xlsx>>

widgets == <<uploaded_file, editor, solar_rate, line_rental, admin_fee>>

(***************************************************************************)
(* Bounds of the model.                                                    *)
(***************************************************************************)
MaxRows == 2
MaxEnergy == 10

(***************************************************************************)
(* Floating point values that may be NaN.                                  *)
(***************************************************************************)
NaN == <<>>
Num(n) == <<n>>
IsNaN(x) == x = NaN

Plus(a, b) == IF IsNaN(a) \/ IsNaN(b) THEN NaN ELSE Num(a[1] + b[1])
Minus(a, b) == IF IsNaN(a) \/ IsNaN(b) THEN NaN ELSE Num(a[1] - b[1])
Times(a, b) == IF IsNaN(a) \/ IsNaN(b) THEN NaN ELSE Num(a[1] * b[1])

\* Series.sum(): NaN entries are skipped, an all-NaN column sums to 0.
RECURSIVE SumSkipNa(_)
SumSkipNa(s) ==
    IF s = <<>> THEN 0
    ELSE (IF IsNaN(Head(s)) THEN 0 ELSE Head(s)[1]) + SumSkipNa(Tail(s))

Abs(n) == IF n < 0 THEN -n ELSE n

RECURSIVE Gcd(_, _)
Gcd(a, b) == IF b = 0 THEN a ELSE Gcd(b, a % b)

\* Float division a / b: a finite quotient (kept as a reduced fraction), or
\* the non-finite value IEEE division by zero gives.
Divide(a, b) ==
    IF b = 0
    THEN [kind |-> IF a = 0 THEN "nan" ELSE IF a > 0 THEN "inf" ELSE "-inf",
          num |-> 0, den |-> 0]
    ELSE LET g == Gcd(Abs(a), Abs(b))
             s == IF b < 0 THEN -1 ELSE 1
         IN [kind |-> "finite", num |-> (s * a) \div g, den |-> (s * b) \div g]

(***************************************************************************)
(* Calendar dates and the '%b-%y' label.                                   *)
(***************************************************************************)
Date(y, m, d) == [y |-> y, m |-> m, d |-> d]

IsLeap(y) == (y % 4 = 0 /\ y % 100 # 0) \/ y % 400 = 0

DaysInMonth(y, m) ==
    IF m = 2 THEN (IF IsLeap(y) THEN 29 ELSE 28)
    ELSE IF m \in {4, 6, 9, 11} THEN 30 ELSE 31

\* Chronological order of timestamps.
DateKey(dt) == (dt.y * 12 + (dt.m - 1)) * 31 + (dt.d - 1)

MonthAbbr == <<"Jan", "Feb", "Mar", "Apr", "May", "Jun",
               "Jul", "Aug", "Sep", "Oct", "Nov", "Dec">>

\* The abbreviations in string order, as a sort on the label column sees them.
AbbrSorted == <<"Apr", "Aug", "Dec", "Feb", "Jan", "Jul",
                "Jun", "Mar", "May", "Nov", "Oct", "Sep">>

IndexOf(s, x) == CHOOSE i \in 1..Len(s) : s[i] = x

\* period_end.strftime('%b-%y'): month abbreviation and the year's last two digits.
Strftime(dt) == <<MonthAbbr[dt.m], dt.y % 100>>

\* pd.to_datetime(label, format='%b-%y'): day 1; a two-digit year 00..68 is
\* read as 20yy and 69..99 as 19yy.
Strptime(label) ==
    Date(IF label[2] <= 68 THEN 2000 + label[2] ELSE 1900 + label[2],
         IndexOf(MonthAbbr, label[1]), 1)

\* Position of a label in string order ("Mon-yy", yy zero padded).
LabelStringKey(label) == IndexOf(AbbrSorted, label[1]) * 100 + label[2]

\* ts + pd.DateOffset(months=1) and ts - pd.DateOffset(months=1): the day is
\* kept, cut back to the last day of a shorter month.
Min(a, b) == IF a < b THEN a ELSE b

AddMonth(dt) ==
    LET y == IF dt.m = 12 THEN dt.y + 1 ELSE dt.y
        m == IF dt.m = 12 THEN 1 ELSE dt.m + 1
    IN Date(y, m, Min(dt.d, DaysInMonth(y, m)))

SubMonth(dt) ==
    LET y == IF dt.m = 1 THEN dt.y - 1 ELSE dt.y
        m == IF dt.m = 1 THEN 12 ELSE dt.m - 1
    IN Date(y, m, Min(dt.d, DaysInMonth(y, m)))

ReplaceDay(dt, d) == Date(dt.y, dt.m, d)

\* Variant: the split is put after day 26 instead of at it.
get_supply_period_after26(date) ==
    IF date.d > 26
    THEN LET period_start == ReplaceDay(date, 26)
             period_end == ReplaceDay(AddMonth(period_start), 25)
         IN [label |-> Strftime(period_end), period_end |-> period_end,
             period_start |-> period_start]
    ELSE LET period_end == ReplaceDay(date, 25)
             period_start == ReplaceDay(SubMonth(period_end), 26)
         IN [label |-> Strftime(period_end), period_end |-> period_end,
             period_start |-> period_start]

get_supply_period(date) ==
    IF date.d >= 26
    THEN LET period_start == ReplaceDay(date, 26)
             period_end == ReplaceDay(AddMonth(period_start), 25)
         IN [label |-> Strftime(period_end), period_end |-> period_end,
             period_start |-> period_start]
    ELSE LET period_end == ReplaceDay(date, 25)
             period_start == ReplaceDay(SubMonth(period_end), 26)
         IN [label |-> Strftime(period_end), period_end |-> period_end,
             period_start |-> period_start]

(***************************************************************************)
(* Step 2: the guarantee table and its editor.                             *)
(***************************************************************************)
default_solar_guarantee ==
    [Hour |-> [h \in 1..24 |-> h],
     Pct  |-> <<0, 0, 0, 0, 0, 0, 0, 29, 57, 79, 93, 100,
                100, 93, 79, 57, 21, 0, 0, 0, 0, 0, 0, 0>>]

\* solar_guarantee_df.set_index('Hour').T: one row of values under 24 hour columns.
solar_guarantee_df_t ==
    [columns |-> default_solar_guarantee.Hour, values |-> default_solar_guarantee.Pct]

\* One cell edit in st.data_editor(..., num_rows="fixed"): the value under
\* one hour column is replaced, the columns stay.
EditCellValue(ed, h, v) ==
    [ed EXCEPT !.values[IndexOf(ed.columns, h)] = v]

\* edited_df_t.T.reset_index(): back to one (Hour, Pct) row per column.
TransposeBack(ed) ==
    [i \in 1..Len(ed.columns) |-> [Hour |-> ed.columns[i], Pct |-> ed.values[i]]]

\* Variant: only the lower bound is validated.
OutOfRangeLowOnly(edited) ==
    \E i \in 1..Len(edited) : edited[i].Pct < 0

\* (edited_df[...] < 0).any() or (edited_df[...] > 100).any()
OutOfRange(edited) ==
    (\E i \in 1..Len(edited) : edited[i].Pct < 0)
    \/ (\E i \in 1..Len(edited) : edited[i].Pct > 100)

\* .clip(lower=0, upper=100)
ClipPct(v) == IF v < 0 THEN 0 ELSE IF v > 100 THEN 100 ELSE v

Clip(edited) ==
    [i \in 1..Len(edited) |-> [edited[i] EXCEPT !.Pct = ClipPct(@)]]

(***************************************************************************)
(* df.merge(edited_df, left_on='hour', right_on='Hour', how='left')        *)
(***************************************************************************)
\* Variant: how='inner', a row without a matching hour is dropped.
JoinRowInner(r, edited) ==
    LET m == SelectSeq(edited, LAMBDA c : c.Hour = r.hour)
    IN [i \in 1..Len(m) |-> r @@ [Hour |-> Num(m[i].Hour), Pct |-> Num(m[i].Pct)]]

JoinRow(r, edited) ==
    LET m == SelectSeq(edited, LAMBDA c : c.Hour = r.hour)
    IN IF m = <<>>
       THEN <<r @@ [Hour |-> NaN, Pct |-> NaN]>>
       ELSE [i \in 1..Len(m) |-> r @@ [Hour |-> Num(m[i].Hour), Pct |-> Num(m[i].Pct)]]

RECURSIVE Merge(_, _)
Merge(rows, edited) ==
    IF rows = <<>> THEN <<>>
    ELSE JoinRow(Head(rows), edited) \o Merge(Tail(rows), edited)

(***************************************************************************)
(* Step 4: Calculate Charges (one row).                                    *)
(***************************************************************************)
SolarConsumption(r) == Times(Num(r.kWh), r.Pct)

\* Variant: the remainder is taken from the percentage instead of the solar energy.
NonSolarConsumptionFromPct(r) == Minus(Num(r.kWh * 100), r.Pct)

NonSolarConsumption(r) == Minus(Num(r.kWh * 100), SolarConsumption(r))

SolarCharge(r, sr, lr) == Times(SolarConsumption(r), Num(sr + lr))

NonSolarCharge(r, af) == Times(NonSolarConsumption(r), Num(r.wesm + af))

TotalCharge(r, sr, lr, af) == Plus(SolarCharge(r, sr, lr), NonSolarCharge(r, af))

CalculateCharges(r, sr, lr, af) ==
    r @@ [SolarConsumption    |-> SolarConsumption(r),
          NonSolarConsumption |-> NonSolarConsumption(r),
          SolarCharge         |-> SolarCharge(r, sr, lr),
          NonSolarCharge      |-> NonSolarCharge(r, af),
          TotalCharge         |-> TotalCharge(r, sr, lr, af)]

\* Step 5: the two columns taken from get_supply_period.
WithSupplyPeriod(r) ==
    LET sp == get_supply_period(r.datetime)
    IN r @@ [SupplyPeriod |-> sp.label, SupplyPeriodEnd |-> sp.period_end]

(***************************************************************************)
(* Sorting.  sort_values uses an unstable sort: rows with equal keys may   *)
(* come out in any order, so a sort yields a set of possible results.      *)
(***************************************************************************)
Permuted(s) ==
    {[i \in 1..Len(s) |-> s[p[i]]] : p \in Permutations(1..Len(s))}

\* key maps each element of s to its sort key.
Sorted(s, key) ==
    {t \in Permuted(s) : \A i \in 1..Len(t) - 1 : key[t[i]] <= key[t[i + 1]]}

Elements(s) == {s[i] : i \in 1..Len(s)}

\* The columns kept for the detailed table.
DetailedColumns(r) ==
    [datetime |-> r.datetime, hour |-> r.hour, wesm |-> r.wesm, kWh |-> r.kWh,
     SolarConsumption |-> r.SolarConsumption,
     NonSolarConsumption |-> r.NonSolarConsumption,
     SolarCharge |-> r.SolarCharge, NonSolarCharge |-> r.NonSolarCharge,
     TotalCharge |-> r.TotalCharge]

\* sort_values(by='datetime')
DetailedTables(d) ==
    LET t == [i \in 1..Len(d) |-> DetailedColumns(d[i])]
    IN Sorted(t, [r \in Elements(t) |-> DateKey(r.datetime)])

(***************************************************************************)
(* pivot_table(index=['Supply Period'], aggfunc=np.sum)                    *)
(***************************************************************************)
GroupSums(d, label) ==
    LET g == SelectSeq(d, LAMBDA r : r.SupplyPeriod = label)
    IN [SupplyPeriod        |-> label,
        kWh                 |-> SumSkipNa([i \in DOMAIN g |-> Num(g[i].kWh)]),
        SolarConsumption    |-> SumSkipNa([i \in DOMAIN g |-> g[i].SolarConsumption]),
        NonSolarConsumption |-> SumSkipNa([i \in DOMAIN g |-> g[i].NonSolarConsumption]),
        SolarCharge         |-> SumSkipNa([i \in DOMAIN g |-> g[i].SolarCharge]),
        NonSolarCharge      |-> SumSkipNa([i \in DOMAIN g |-> g[i].NonSolarCharge]),
        TotalCharge         |-> SumSkipNa([i \in DOMAIN g |-> g[i].TotalCharge])]

\* The group keys, in the string order the group-by leaves them in.
GroupKeys(d) ==
    LET labels == {d[i].SupplyPeriod : i \in 1..Len(d)}
    IN CHOOSE s \in [1..Cardinality(labels) -> labels] :
         /\ \A l \in labels : \E i \in DOMAIN s : s[i] = l
         /\ \A i \in 1..Len(s) - 1 : LabelStringKey(s[i]) < LabelStringKey(s[i + 1])

PivotTable(d) ==
    LET keys == GroupKeys(d)
    IN [i \in 1..Len(keys) |-> GroupSums(d, keys[i])]

\* pivot_df['Effective Rate (pHp/kWh)'] = Total Charge / kWh, a float column.
WithEffectiveRate(row) ==
    row @@ [EffectiveRate |-> Divide(row.TotalCharge, row.kWh)]

\* sort_values(by='Supply Period Date'), the date parsed back from the label.
SortBySupplyPeriodDate(p) ==
    CHOOSE t \in Sorted(p, [r \in Elements(p) |-> DateKey(Strptime(r.SupplyPeriod))]) :
        TRUE

PeriodRows(d) ==
    LET p == PivotTable(d)
    IN SortBySupplyPeriodDate([i \in 1..Len(p) |-> WithEffectiveRate(p[i])])

(***************************************************************************)
(* Grand Total.                                                            *)
(***************************************************************************)
GrandTotalLabel == <<"Grand Total">>

\* Variant: the total charge of the grand total leaves out the non-solar charge.
GrandTotalSumsSolarOnly(p) ==
    [SupplyPeriod        |-> GrandTotalLabel,
     kWh                 |-> SumSkipNa([i \in DOMAIN p |-> Num(p[i].kWh)]),
     SolarConsumption    |-> SumSkipNa([i \in DOMAIN p |-> Num(p[i].SolarConsumption)]),
     NonSolarConsumption |-> SumSkipNa([i \in DOMAIN p |-> Num(p[i].NonSolarConsumption)]),
     SolarCharge         |-> SumSkipNa([i \in DOMAIN p |-> Num(p[i].SolarCharge)]),
     NonSolarCharge      |-> SumSkipNa([i \in DOMAIN p |-> Num(p[i].NonSolarCharge)]),
     TotalCharge         |-> SumSkipNa([i \in DOMAIN p |-> Num(p[i].SolarCharge)])]

GrandTotalSums(p) ==
    [SupplyPeriod        |-> GrandTotalLabel,
     kWh                 |-> SumSkipNa([i \in DOMAIN p |-> Num(p[i].kWh)]),
     SolarConsumption    |-> SumSkipNa([i \in DOMAIN p |-> Num(p[i].SolarConsumption)]),
     NonSolarConsumption |-> SumSkipNa([i \in DOMAIN p |-> Num(p[i].NonSolarConsumption)]),
     SolarCharge         |-> SumSkipNa([i \in DOMAIN p |-> Num(p[i].SolarCharge)]),
     NonSolarCharge      |-> SumSkipNa([i \in DOMAIN p |-> Num(p[i].NonSolarCharge)]),
     TotalCharge         |-> SumSkipNa([i \in DOMAIN p |-> Num(p[i].TotalCharge)])]

\* grand_total['Total Charge (pHp)'] / grand_total['kWh'].  After the label
\* was stored in it, grand_total is an object Series: the two operands are
\* plain Python numbers when the cast boxed them (division by zero raises
\* ZeroDivisionError) or still numpy floats (division by zero gives a
\* non-finite value).  Both outcomes are kept; Raised stands for the
\* exception.
Raised == [kind |-> "raise", num |-> 0, den |-> 0]

GrandTotalRates(g) ==
    IF g.kWh = 0 THEN {Raised, Divide(g.TotalCharge, g.kWh)}
    ELSE {Divide(g.TotalCharge, g.kWh)}

(***************************************************************************)
(* One execution of the script, from the widget state and the button.      *)
(* The result is what the execution leaves on the page and on disk.        *)
(*   "nofile"  nothing uploaded, the script body is skipped                *)
(*   "halted"  st.stop() after the range warning                           *)
(*   "ready"   the button was not pressed, only the inputs are shown       *)
(*   "done"    tables shown and result.xlsx written                        *)
(*   "error"   an exception ended the execution                            *)
(***************************************************************************)
Ended(how, warn, edited, d, detailed, pivot, xlsx) ==
    [outcome |-> how, warning |-> warn, edited_df |-> edited, df |-> d,
     detailed_charges_df |-> detailed, pivot_df |-> pivot, result_xlsx |-> xlsx]

\* Lines 63-147, the body of "if st.button('Calculate Charges')".
Calculated(merged, edited, sr, lr, af) ==
    LET charged == [i \in 1..Len(merged) |-> CalculateCharges(merged[i], sr, lr, af)]
    IN IF charged = <<>>
       THEN \* zip(*...) of no rows has nothing to unpack: ValueError
            {Ended("error", FALSE, edited, charged, <<>>, <<>>, <<>>)}
       ELSE LET d == [i \in 1..Len(charged) |-> WithSupplyPeriod(charged[i])]
                rows == PeriodRows(d)
                total == GrandTotalSums(rows)
            IN UNION {
                 { IF rate = Raised
                   THEN Ended("error", FALSE, edited, d, detailed, <<>>, <<>>)
                   ELSE LET summary == Append(rows, total @@ [EffectiveRate |-> rate])
                        IN Ended("done", FALSE, edited, d, detailed, summary,
                                 <<detailed, summary, edited>>)
                   : rate \in GrandTotalRates(total) }
                 : detailed \in DetailedTables(d) }

Script(file, ed, sr, lr, af, btn) ==
    IF ~file.present
    THEN {Ended("nofile", FALSE, <<>>, <<>>, <<>>, <<>>, <<>>)}
    ELSE LET edited == TransposeBack(ed)
         IN IF OutOfRange(edited)
            THEN {Ended("halted", TRUE, Clip(edited), file.rows, <<>>, <<>>, <<>>)}
            ELSE LET merged == Merge(file.rows, edited)
                 IN IF ~btn
                    THEN {Ended("ready", FALSE, edited, merged, <<>>, <<>>, <<>>)}
                    ELSE Calculated(merged, edited, sr, lr, af)

\* The script runs on the new widget state.
Execute(btn) ==
    /\ pressed' = btn
    /\ \E r \in Script(uploaded_file', editor', solar_rate', line_rental',
                       admin_fee', btn) :
         /\ outcome' = r.outcome
         /\ warning' = r.warning
         /\ edited_df' = r.edited_df
         /\ df' = r.df
         /\ detailed_charges_df' = r.detailed_charges_df
         /\ pivot_df' = r.pivot_df
         /\ result_xlsx' = r.result_xlsx

(***************************************************************************)
(* Inputs.                                                                 *)
(***************************************************************************)
\* One row of the uploaded sheet.  The 'supply period' column is passed
\* through to the detailed table untouched and is left out.
LoadRow(dt, h, p, e) == [datetime |-> dt, hour |-> h, wesm |-> p, kWh |-> e]

LoadRows ==
    { LoadRow(Date(2024, 1, 25), 8, 50, 10),
      LoadRow(Date(2024, 1, 26), 12, 50, 10),
      LoadRow(Date(2023, 12, 26), 8, 50, 10),
      LoadRow(Date(1924, 2, 10), 8, 50, 10),
      LoadRow(Date(2024, 1, 26), 25, 50, 10),
      LoadRow(Date(2024, 1, 25), 8, 50, 0) }

Files == UNION {[1..n -> LoadRows] : n \in 0..MaxRows}

EditHours == {8, 12}
EditValues == {-5, 50, 150}
SolarRates == {0, 20}
LineRentals == {0, 10}
AdminFees == {0, 5}

NoFile == [present |-> FALSE, rows |-> <<>>]
File(rows) == [present |-> TRUE, rows |-> rows]

\* The widgets below st.stop() are on the page only if the last execution
\* got past it.
InputsShown == outcome \in {"ready", "done", "error"}

(***************************************************************************)
(* Actions: one interaction and the execution it triggers.                 *)
(***************************************************************************)
\* Replacing a file reaches no state that uploading it first does not reach.
Upload ==
    /\ ~uploaded_file.present
    /\ \E rows \in Files : uploaded_file' = File(rows)
    /\ UNCHANGED <<editor, solar_rate, line_rental, admin_fee>>
    /\ Execute(FALSE)

EditCell ==
    /\ uploaded_file.present
    /\ \E h \in EditHours, v \in EditValues : editor' = EditCellValue(editor, h, v)
    /\ UNCHANGED <<uploaded_file, solar_rate, line_rental, admin_fee>>
    /\ Execute(FALSE)

\* A click on the button while a cell is being edited commits the edit and
\* presses the button in the same execution.
EditCellAndCalculate ==
    /\ InputsShown
    /\ \E h \in EditHours, v \in EditValues : editor' = EditCellValue(editor, h, v)
    /\ UNCHANGED <<uploaded_file, solar_rate, line_rental, admin_fee>>
    /\ Execute(TRUE)

SetSolarRate ==
    /\ InputsShown
    /\ \E v \in SolarRates : solar_rate' = v
    /\ UNCHANGED <<uploaded_file, editor, line_rental, admin_fee>>
    /\ Execute(FALSE)

SetLineRental ==
    /\ InputsShown
    /\ \E v \in LineRentals : line_rental' = v
    /\ UNCHANGED <<uploaded_file, editor, solar_rate, admin_fee>>
    /\ Execute(FALSE)

SetAdminFee ==
    /\ InputsShown
    /\ \E v \in AdminFees : admin_fee' = v
    /\ UNCHANGED <<uploaded_file, editor, solar_rate, line_rental>>
    /\ Execute(FALSE)

Calculate ==
    /\ InputsShown
    /\ UNCHANGED widgets
    /\ Execute(TRUE)

\* A rerun with nothing changed (the page is refreshed).
Rerun ==
    /\ UNCHANGED widgets
    /\ Execute(FALSE)

Init ==
    /\ uploaded_file = NoFile
    /\ editor = solar_guarantee_df_t
    /\ solar_rate = 0
    /\ line_rental = 0
    /\ admin_fee = 0
    /\ pressed = FALSE
    /\ outcome = "nofile"
    /\ warning = FALSE
    /\ edited_df = <<>>
    /\ df = <<>>
    /\ detailed_charges_df = <<>>
    /\ pivot_df = <<>>
    /\ result_xlsx = <<>>

Next ==
    \/ Upload
    \/ EditCell
    \/ EditCellAndCalculate
    \/ SetSolarRate
    \/ SetLineRental
    \/ SetAdminFee
    \/ Calculate
    \/ Rerun

Spec == Init /\ [][Next]_vars

(***************************************************************************)
(* Two further specifications run the same script over wider inputs: one   *)
(* over energies, percentages, prices and tariffs, one over every calendar *)
(* date of a set of years.  Each starts in the state the page is in after  *)
(* the file was uploaded and the editor filled in (button not pressed).    *)
(***************************************************************************)
StateAfter(file, ed) ==
    /\ uploaded_file = file
    /\ editor = ed
    /\ solar_rate = 0
    /\ line_rental = 0
    /\ admin_fee = 0
    /\ pressed = FALSE
    /\ \E r \in Script(file, ed, 0, 0, 0, FALSE) :
         /\ outcome = r.outcome
         /\ warning = r.warning
         /\ edited_df = r.edited_df
         /\ df = r.df
         /\ detailed_charges_df = r.detailed_charges_df
         /\ pivot_df = r.pivot_df
         /\ result_xlsx = r.result_xlsx

Prices == {-10, 50}

InitCharge ==
    \E e \in 0..MaxEnergy, g \in 0..100, p \in Prices :
        StateAfter(File(<<LoadRow(Date(2024, 1, 25), 8, p, e)>>),
                   EditCellValue(solar_guarantee_df_t, 8, g))

NextCharge ==
    \/ SetSolarRate
    \/ SetLineRental
    \/ SetAdminFee
    \/ Calculate
    \/ Rerun

SpecCharge == InitCharge /\ [][NextCharge]_vars

Years == {1900, 1999, 2000, 2023, 2024, 2068}

InitPeriod ==
    \E y \in Years, m \in 1..12 :
        \E d \in 1..DaysInMonth(y, m) :
            StateAfter(File(<<LoadRow(Date(y, m, d), 8, 50, 10)>>),
                       solar_guarantee_df_t)

NextPeriod ==
    \/ Calculate
    \/ Rerun

SpecPeriod == InitPeriod /\ [][NextPeriod]_vars

(***************************************************************************)
(* Properties.                                                             *)
(***************************************************************************)
Charged == outcome \in {"done", "error"} /\ df # <<>>

\* C1: on every row whose hour matched a percentage g in [0,100], the five
\* derived columns are e*g/100, e minus that, solar energy times (solar rate +
\* line rental), non-solar energy times (spot price + admin fee) and the sum
\* of the two charges; solar and non-solar energy add up to e; and e=10, g=29,
\* p=5 with rates 2/1/0.5 gives 2.9, 7.1, 8.7, 39.05 and 47.75.
C1_ChargesAsSpecified ==
    Charged =>
      \A i \in DOMAIN df :
        LET r == df[i]
            e == r.kWh
            p == r.wesm
        IN (~IsNaN(r.Pct) /\ r.Pct[1] \in 0..100) =>
             LET g == r.Pct[1]
                 solar == e * g
                 nonSolar == 100 * e - e * g
             IN /\ r.SolarConsumption = <<solar>>
                /\ r.NonSolarConsumption = <<nonSolar>>
                /\ r.SolarConsumption[1] + r.NonSolarConsumption[1] = 100 * e
                /\ r.SolarCharge = <<solar * (solar_rate + line_rental)>>
                /\ r.NonSolarCharge = <<nonSolar * (p + admin_fee)>>
                /\ r.TotalCharge = <<r.SolarCharge[1] + r.NonSolarCharge[1]>>
                /\ (e = 10 /\ g = 29 /\ p = 50 /\ solar_rate = 20
                           /\ line_rental = 10 /\ admin_fee = 5)
                     => /\ r.SolarConsumption = <<290>>
                        /\ r.NonSolarConsumption = <<710>>
                        /\ r.SolarCharge = <<8700>>
                        /\ r.NonSolarCharge = <<39050>>
                        /\ r.TotalCharge = <<47750>>

C1_Witness ==
    /\ outcome = "done"
    /\ solar_rate = 20 /\ line_rental = 10 /\ admin_fee = 5
    /\ \E i \in DOMAIN detailed_charges_df :
         /\ detailed_charges_df[i].kWh = 10
         /\ detailed_charges_df[i].wesm = 50
         /\ df[i].Pct = <<29>>
         /\ detailed_charges_df[i].TotalCharge = <<47750>>

\* C2: for every valid calendar date d the run completes and the row's supply
\* period ends on the 25th of d's month when d.day <= 25 and on the 25th of
\* the following month (January of the next year after December) when
\* d.day >= 26; the label is that end date's month abbreviation and two-digit
\* year; the end is never before d; 2024-01-25 is Jan-24, 2024-01-26 Feb-24.
C2_SupplyPeriod ==
    /\ pressed => outcome = "done"
    /\ outcome = "done" =>
         \A i \in DOMAIN df :
           LET d == df[i].datetime
               e == df[i].SupplyPeriodEnd
               l == df[i].SupplyPeriod
           IN /\ e.d = 25
              /\ d.d <= 25 => (e.y = d.y /\ e.m = d.m)
              /\ (d.d >= 26 /\ d.m < 12) => (e.y = d.y /\ e.m = d.m + 1)
              /\ (d.d >= 26 /\ d.m = 12) => (e.y = d.y + 1 /\ e.m = 1)
              /\ l = <<MonthAbbr[e.m], e.y % 100>>
              /\ DateKey(e) >= DateKey(d)
              /\ d = Date(2024, 1, 25) => l = <<"Jan", 24>>
              /\ d = Date(2024, 1, 26) => l = <<"Feb", 24>>

C2_Witness ==
    /\ outcome = "done"
    /\ df[1].datetime = Date(2023, 12, 26)
    /\ df[1].SupplyPeriod = <<"Jan", 24>>
    /\ df[1].SupplyPeriodEnd = Date(2024, 1, 25)

NothingProduced ==
    /\ detailed_charges_df = <<>>
    /\ pivot_df = <<>>
    /\ result_xlsx = <<>>

UnmatchedHour ==
    \E i \in DOMAIN uploaded_file.rows : uploaded_file.rows[i].hour \notin 1..24

\* C3: when some input row's hour has no entry in the guarantee curve (an
\* hour outside 1..24) the whole run is rejected: no detailed table, no
\* summary table and no export is produced.
C3_UnmatchedHourRejected ==
    UnmatchedHour => NothingProduced

\* C4: whenever a percentage of the edited curve is below 0 or above 100 the
\* execution halts at validation, with the button pressed or not: no charge
\* column is computed and no detailed, summary or export output exists; and
\* whenever charges were computed, the curve used is the editor's and all of
\* its 24 percentages lie in [0,100].
C4_OutOfRangeHalts ==
    /\ (\E i \in DOMAIN editor.values :
          editor.values[i] < 0 \/ editor.values[i] > 100) =>
         /\ outcome = "halted"
         /\ NothingProduced
         /\ \A i \in DOMAIN df : "TotalCharge" \notin DOMAIN df[i]
    /\ (\E i \in DOMAIN df : "TotalCharge" \in DOMAIN df[i]) =>
         /\ edited_df = TransposeBack(editor)
         /\ Len(edited_df) = 24
         /\ \A i \in DOMAIN edited_df : edited_df[i].Pct \in 0..100

C4_Witness ==
    /\ pressed
    /\ outcome = "halted"
    /\ uploaded_file.rows # <<>>
    /\ \E i \in DOMAIN editor.values : editor.values[i] > 100

RECURSIVE SumInts(_)
SumInts(q) == IF q = <<>> THEN 0 ELSE Head(q) + SumInts(Tail(q))

PeriodRowsOf(summary) == SubSeq(summary, 1, Len(summary) - 1)
GrandTotalOf(summary) == summary[Len(summary)]

\* C5: the Grand Total row's value in each numeric column is the sum of that
\* column over the supply-period rows, and its effective rate is its own
\* total charge divided by its own energy.
C5_GrandTotalIsColumnSum ==
    pivot_df # <<>> =>
      LET rows == PeriodRowsOf(pivot_df)
          g == GrandTotalOf(pivot_df)
      IN /\ rows # <<>>
         /\ g.SupplyPeriod = GrandTotalLabel
         /\ g.kWh = SumInts([i \in DOMAIN rows |-> rows[i].kWh])
         /\ g.SolarConsumption = SumInts([i \in DOMAIN rows |-> rows[i].SolarConsumption])
         /\ g.NonSolarConsumption =
              SumInts([i \in DOMAIN rows |-> rows[i].NonSolarConsumption])
         /\ g.SolarCharge = SumInts([i \in DOMAIN rows |-> rows[i].SolarCharge])
         /\ g.NonSolarCharge = SumInts([i \in DOMAIN rows |-> rows[i].NonSolarCharge])
         /\ g.TotalCharge = SumInts([i \in DOMAIN rows |-> rows[i].TotalCharge])
         /\ g.kWh # 0 =>
              /\ g.EffectiveRate.kind = "finite"
              /\ g.EffectiveRate.num * g.kWh = g.TotalCharge * g.EffectiveRate.den
         /\ g.kWh = 0 => g.EffectiveRate.kind \in {"nan", "inf", "-inf"}

\* Two periods with different rates: the grand total's rate is neither.
C5_Witness ==
    /\ Len(pivot_df) = 3
    /\ pivot_df[3].kWh = 20
    /\ pivot_df[1].EffectiveRate # pivot_df[2].EffectiveRate
    /\ pivot_df[3].EffectiveRate # pivot_df[1].EffectiveRate
    /\ pivot_df[3].EffectiveRate # pivot_df[2].EffectiveRate
    /\ pivot_df[3].TotalCharge > 0

\* The supply period end dates of the charged rows summed into a summary row.
EndDatesOf(label) ==
    {DateKey(df[i].SupplyPeriodEnd) : i \in {j \in DOMAIN df : df[j].SupplyPeriod = label}}

\* C6: the supply-period rows of the summary are in ascending order of their
\* supply period end dates, and the Grand Total row is the last row and the
\* only one of its kind.
C6_ChronologicalOrder ==
    pivot_df # <<>> =>
      /\ GrandTotalOf(pivot_df).SupplyPeriod = GrandTotalLabel
      /\ \A i \in 1..Len(pivot_df) - 1 : pivot_df[i].SupplyPeriod # GrandTotalLabel
      /\ \A i, j \in 1..Len(pivot_df) - 1 :
           i < j => \A a \in EndDatesOf(pivot_df[i].SupplyPeriod),
                       b \in EndDatesOf(pivot_df[j].SupplyPeriod) : a < b

\* C7: a run whose input has a supply period (or a grand total) of zero
\* summed energy still completes with every period row and the Grand Total
\* row, and the effective rate of a zero-energy row is an explicit
\* "undefined" result, not a not-a-number or infinite value.
C7_ZeroEnergyExplicit ==
    (pressed /\ outcome # "halted" /\ uploaded_file.rows # <<>>) =>
      /\ outcome = "done"
      /\ \A i \in DOMAIN pivot_df :
           pivot_df[i].kWh = 0 => pivot_df[i].EffectiveRate.kind = "undefined"

Merged == outcome \in {"ready", "done", "error"}

\* C8: whatever was edited, the curve of an execution has exactly 24 entries,
\* entry h for hour h; every input row with hour in 1..24 matches exactly one
\* entry and takes its percentage, and the join yields one row per input row,
\* in the input's order.
C8_CurveCoversHoursOnce ==
    uploaded_file.present =>
      /\ editor.columns = [h \in 1..24 |-> h]
      /\ Len(edited_df) = 24
      /\ \A h \in 1..24 : edited_df[h].Hour = h
      /\ Merged =>
           /\ Len(df) = Len(uploaded_file.rows)
           /\ \A i \in DOMAIN df :
                LET r == uploaded_file.rows[i]
                IN /\ df[i].datetime = r.datetime
                   /\ df[i].hour = r.hour
                   /\ df[i].kWh = r.kWh
                   /\ r.hour \in 1..24 =>
                        /\ Cardinality({j \in DOMAIN edited_df :
                                          edited_df[j].Hour = r.hour}) = 1
                        /\ df[i].Hour = <<r.hour>>
                        /\ df[i].Pct = <<edited_df[r.hour].Pct>>

C8_Witness ==
    /\ outcome = "done"
    /\ editor # solar_guarantee_df_t
    /\ Len(df) = 2
    /\ df[1].Pct = <<50>>
    /\ IsNaN(df[2].Pct)

\* C9: after an execution halted on an out-of-range percentage, the table the
\* operator sees in the editor is the clamped table, so that the next
\* execution, with no further edit, passes validation.
C9_ClampedTableSurfaced ==
    outcome = "halted" =>
      /\ TransposeBack(editor) = edited_df
      /\ ~OutOfRange(TransposeBack(editor))

\* C10: grouping by label partitions the charged rows: every charged row is
\* summed into exactly one summary row, two rows share a summary row exactly
\* when their supply period end dates are equal, and the energy and total
\* charge summed over the period rows, and those of the Grand Total, are the
\* sums over all input rows, every one of which has a charge.
C10_PeriodsPartitionRows ==
    outcome = "done" =>
      LET rows == PeriodRowsOf(pivot_df)
          g == GrandTotalOf(pivot_df)
      IN /\ \A i \in DOMAIN df :
              Cardinality({k \in DOMAIN rows :
                             rows[k].SupplyPeriod = df[i].SupplyPeriod}) = 1
         /\ \A i, j \in DOMAIN df :
              (df[i].SupplyPeriod = df[j].SupplyPeriod)
                <=> (df[i].SupplyPeriodEnd = df[j].SupplyPeriodEnd)
         /\ \A i \in DOMAIN df : ~IsNaN(df[i].TotalCharge)
         /\ SumInts([k \in DOMAIN rows |-> rows[k].kWh])
              = SumInts([i \in DOMAIN uploaded_file.rows |-> uploaded_file.rows[i].kWh])
         /\ g.kWh = SumInts([i \in DOMAIN uploaded_file.rows |-> uploaded_file.rows[i].kWh])
         /\ SumInts([k \in DOMAIN rows |-> rows[k].TotalCharge])
              = SumInts([i \in DOMAIN df |-> df[i].TotalCharge[1]])
         /\ g.TotalCharge = SumInts([i \in DOMAIN df |-> df[i].TotalCharge[1]])

====
